---- MODULE Spec2Model ----
(***************************************************************************)
(* Workload balancing and assignment engine of the task-management app:    *)
(* the capacity evaluator (lib/team-utils), the task create / update       *)
(* handlers that consult it, and the rebalancing sweep                     *)
(* (app/api/tasks/reassign/route.ts).                                      *)
(*                                                                         *)
(* The persistent store is modelled by three tables: teamMember, task and  *)
(* activityLog.  The User, Team and Project tables are never written by    *)
(* the handlers modelled here and are given as fixed rows.                 *)
(***************************************************************************)
EXTENDS Integers, Sequences, FiniteSets, TLC

VARIABLES
  teamMember,   \* TeamMember table: member id -> [teamId, capacity]
  task,         \* Task table: sequence of rows, a task's id is its index
  activityLog,  \* ActivityLog table: sequence of rows in insertion order
  sweep,        \* the running POST /api/tasks/reassign request
  sweep2,       \* a second POST /api/tasks/reassign request, running concurrently
  req,          \* the running task create / update request
  req2,         \* a second task create / update request, running concurrently
  memberReq     \* the last team-member create / update request and its answer

vars == <<teamMember, task, activityLog, sweep, sweep2, req, req2, memberReq>>

----------------------------------------------------------------------------
(* Bounds *)

\* Largest number of rows of the Task table.
MaxTasks == 2

\* Largest number of members the member requests create.
MaxNewMembers == 2

----------------------------------------------------------------------------
(* Fixed rows of the store *)

NoMember == "null"      \* assignedToId: null
NoUser == "null-user"   \* auth() without a session
Undefined == "undefined" \* a field absent from a request body

\* User rows: the webhook stores the Clerk id in clerkId and lets the store
\* generate id, so the two never coincide.
User == { [id |-> "u1", clerkId |-> "clerk1"],
          [id |-> "u2", clerkId |-> "clerk2"] }

ClerkIds == { u.clerkId : u \in User }
UserIds == { u.id : u \in User }

\* prisma.user.findUnique({ where: { clerkId } }): the row's id, or NoUser
findUserByClerkId(clerkId) ==
  IF \E u \in User : u.clerkId = clerkId
  THEN (CHOOSE u \in User : u.clerkId = clerkId).id
  ELSE NoUser

\* Teams in the order prisma.team.findMany returns them; tC has no members.
TeamSeq == << "tA", "tB", "tC" >>
TeamIds == { TeamSeq[i] : i \in DOMAIN TeamSeq }

\* Members in the order the store enumerates them, with their team.
MemberSeq == << "m1", "m2", "m3" >>
MemberIds == { MemberSeq[i] : i \in DOMAIN MemberSeq }
MemberTeam == [ m \in MemberIds |-> IF m = "m3" THEN "tB" ELSE "tA" ]

\* Project rows.
Project == [ pA |-> [teamId |-> "tA", userId |-> "u1"],
             pB |-> [teamId |-> "tB", userId |-> "u2"] ]
ProjectIds == DOMAIN Project

Priorities == { "LOW", "MEDIUM", "HIGH" }
Statuses == { "PENDING", "IN_PROGRESS", "DONE" }

\* Capacities a member is created with (the handlers accept 0..5).
Capacities == { 0, 1, 2 }

\* Capacity bounds of the member handlers and the default of a new member.
MaxCapacity == 5
DefaultCapacity == 3

\* The owner of each team.
TeamOwner == [ tA |-> "u1", tB |-> "u2", tC |-> "u1" ]

\* ActivityLog_userId_fkey: an ActivityLog row's userId must be a User id.
ActivityLogUserIdFkey(userId) == userId \in UserIds

\* The assignedTo relation of Task: assignedToId is null or a TeamMember id.
TaskAssignedToIdFkey(assignedToId) ==
  assignedToId = NoMember \/ assignedToId \in MemberIds

----------------------------------------------------------------------------
(* Sequence helpers (Array.prototype) *)

Min(a, b) == IF a <= b THEN a ELSE b
Max(a, b) == IF a >= b THEN a ELSE b

\* seq.slice(0, end), with JavaScript's reading of a negative end
slice0(seq, end) ==
  IF end >= 0 THEN SubSeq(seq, 1, Min(end, Len(seq)))
  ELSE SubSeq(seq, 1, Max(Len(seq) + end, 0))

\* the indices of seq, ascending, as a sequence
RECURSIVE indexSeq(_)
indexSeq(n) == IF n = 0 THEN << >> ELSE Append(indexSeq(n - 1), n)

\* seq.sort((a, b) => key(a) - key(b)) for keys in lo..hi: the sort is stable
RECURSIVE sortByKey(_, _, _, _)
sortByKey(seq, key, lo, hi) ==
  IF lo > hi THEN << >>
  ELSE SelectSeq(seq, LAMBDA x : key[x] = lo) \o sortByKey(seq, key, lo + 1, hi)

----------------------------------------------------------------------------
(* Capacity evaluator: lib/team-utils *)

\* _count.tasks with where status not DONE: the member's open tasks
countOpenTasks(memberId) ==
  Cardinality({ i \in DOMAIN task :
                  task[i].assignedToId = memberId /\ task[i].status # "DONE" })

\* Faulty variant: the boundary is exclusive (load > capacity).
isMemberOverCapacityExclusive(memberId) ==
  IF memberId \notin DOMAIN teamMember
  THEN [overCapacity |-> FALSE, currentLoad |-> 0, capacity |-> 0, member |-> NoMember]
  ELSE [overCapacity |-> countOpenTasks(memberId) > teamMember[memberId].capacity,
        currentLoad |-> countOpenTasks(memberId),
        capacity |-> teamMember[memberId].capacity,
        member |-> memberId]

isMemberOverCapacity(memberId) ==
  IF memberId \notin DOMAIN teamMember
  THEN [overCapacity |-> FALSE, currentLoad |-> 0, capacity |-> 0, member |-> NoMember]
  ELSE [overCapacity |-> countOpenTasks(memberId) >= teamMember[memberId].capacity,
        currentLoad |-> countOpenTasks(memberId),
        capacity |-> teamMember[memberId].capacity,
        member |-> memberId]

\* Faulty variant: the force flag is ignored.
validateTaskAssignmentNoForce(memberId, force) ==
  LET r == isMemberOverCapacity(memberId)
  IN IF r.member = NoMember
     THEN [valid |-> FALSE, warning |-> FALSE, error |-> "Member not found",
           currentLoad |-> 0, capacity |-> 0, member |-> NoMember]
     ELSE IF r.overCapacity
     THEN [valid |-> FALSE, warning |-> TRUE, error |-> "",
           currentLoad |-> r.currentLoad, capacity |-> r.capacity, member |-> NoMember]
     ELSE [valid |-> TRUE, warning |-> FALSE, error |-> "",
           currentLoad |-> r.currentLoad, capacity |-> r.capacity, member |-> r.member]

validateTaskAssignment(memberId, force) ==
  LET r == isMemberOverCapacity(memberId)
  IN IF r.member = NoMember
     THEN [valid |-> FALSE, warning |-> FALSE, error |-> "Member not found",
           currentLoad |-> 0, capacity |-> 0, member |-> NoMember]
     ELSE IF r.overCapacity /\ ~force
     THEN [valid |-> FALSE, warning |-> TRUE, error |-> "",
           currentLoad |-> r.currentLoad, capacity |-> r.capacity, member |-> NoMember]
     ELSE [valid |-> TRUE, warning |-> FALSE, error |-> "",
           currentLoad |-> r.currentLoad, capacity |-> r.capacity, member |-> r.member]

----------------------------------------------------------------------------
(* Rebalancing sweep: app/api/tasks/reassign/route.ts *)

\* Faulty variant: the snapshot query forgets the status filter and loads DONE tasks too.
snapshotWithDone ==
  [ m \in MemberIds |->
      [ capacity |-> teamMember[m].capacity,
        tasks |-> SelectSeq(indexSeq(Len(task)),
                            LAMBDA i : task[i].assignedToId = m) ] ]

\* prisma.team.findMany({ include: { members: { include: { tasks: { where:
\* { status: { not: "DONE" } } } } } } }): each member with its open tasks
snapshot ==
  [ m \in MemberIds |->
      [ capacity |-> teamMember[m].capacity,
        tasks |-> SelectSeq(indexSeq(Len(task)),
                            LAMBDA i : task[i].assignedToId = m
                                       /\ task[i].status # "DONE") ] ]

\* team.members of a snapshot team: the TeamMember rows with that teamId
teamMembers(team) == SelectSeq(MemberSeq, LAMBDA m : teamMember[m].teamId = team)

overloadedMembers(ms, team) ==
  SelectSeq(teamMembers(team), LAMBDA m : Len(ms[m].tasks) > ms[m].capacity)

priorityOrder == [ LOW |-> 0, MEDIUM |-> 1, HIGH |-> 2 ]

\* Faulty variant: HIGH tasks are not filtered out.
tasksToMoveWithHigh(rows, ms, m) ==
  sortByKey(ms[m].tasks, [ i \in DOMAIN rows |-> priorityOrder[rows[i].priority] ], 0, 2)

\* Faulty variant: only LOW tasks are taken.
tasksToMoveLowOnly(rows, ms, m) ==
  sortByKey(SelectSeq(ms[m].tasks, LAMBDA i : rows[i].priority = "LOW"),
            [ i \in DOMAIN rows |-> priorityOrder[rows[i].priority] ], 0, 2)

\* Faulty variant: MEDIUM is moved before LOW.
tasksToMoveMediumFirst(rows, ms, m) ==
  sortByKey(SelectSeq(ms[m].tasks, LAMBDA i : rows[i].priority # "HIGH"),
            [ i \in DOMAIN rows |-> 2 - priorityOrder[rows[i].priority] ], 0, 2)

\* overloadedMember.tasks.filter(priority !== "HIGH").sort(LOW first);
\* rows are the task rows the snapshot read
tasksToMove(rows, ms, m) ==
  sortByKey(SelectSeq(ms[m].tasks, LAMBDA i : rows[i].priority # "HIGH"),
            [ i \in DOMAIN rows |-> priorityOrder[rows[i].priority] ], 0, 2)

excessCount(ms, m) == Len(ms[m].tasks) - ms[m].capacity

tasksToReassign(rows, ms, m) == slice0(tasksToMove(rows, ms, m), excessCount(ms, m))

\* Faulty variant: members at capacity are offered as targets.
availableMembersInclusive(ms, team, overloadedMember) ==
  sortByKey(SelectSeq(teamMembers(team),
                      LAMBDA m : m # overloadedMember
                                 /\ Len(ms[m].tasks) <= ms[m].capacity),
            [ m \in MemberIds |-> Len(ms[m].tasks) ], 0, 2 * MaxTasks)

\* Faulty variant: the list is sorted by available capacity, largest first.
availableMembersBySpare(ms, team, overloadedMember) ==
  sortByKey(SelectSeq(teamMembers(team),
                      LAMBDA m : m # overloadedMember
                                 /\ Len(ms[m].tasks) < ms[m].capacity),
            [ m \in MemberIds |-> MaxCapacity - (ms[m].capacity - Len(ms[m].tasks)) ],
            0, MaxCapacity + 2 * MaxTasks)

\* team.members.filter(other member under capacity).sort(least loaded first)
\* Faulty variant: the members of every team are candidates.
availableMembersAnyTeam(ms, team, overloadedMember) ==
  sortByKey(SelectSeq(MemberSeq,
                      LAMBDA m : m # overloadedMember
                                 /\ Len(ms[m].tasks) < ms[m].capacity),
            [ m \in MemberIds |-> Len(ms[m].tasks) ], 0, 2 * MaxTasks)

availableMembers(ms, team, overloadedMember) ==
  sortByKey(SelectSeq(teamMembers(team),
                      LAMBDA m : m # overloadedMember
                                 /\ Len(ms[m].tasks) < ms[m].capacity),
            [ m \in MemberIds |-> Len(ms[m].tasks) ], 0, 2 * MaxTasks)

\* The lists the loop over team.overloadedMembers builds (lines 48 and
\* 66-74): availableMembers is evaluated in the body of that loop, once for
\* each overloaded member of the team.
availableLists(ms, team) ==
  [ k \in DOMAIN overloadedMembers(ms, team) |->
      availableMembers(ms, team, overloadedMembers(ms, team)[k]) ]

\* availableMembers.find(member => member.tasks.length < member.capacity)
targetMember(ms, available) ==
  LET ok == SelectSeq(available, LAMBDA m : Len(ms[m].tasks) < ms[m].capacity)
  IN IF ok = << >> THEN NoMember ELSE ok[1]

\* Faulty variant: the first listed member at or under capacity is taken.
targetMemberInclusive(ms, available) ==
  LET ok == SelectSeq(available, LAMBDA m : Len(ms[m].tasks) <= ms[m].capacity)
  IN IF ok = << >> THEN NoMember ELSE ok[1]

\* Faulty variant: a member counts as available while its count is at most its
\* capacity, both when the list is built and when a target is picked.
RECURSIVE scanInclusive(_, _, _, _, _, _)
scanInclusive(rows, ms, ti, oi, ki, available) ==
  IF ti > Len(TeamSeq) THEN [kind |-> "finish"]
  ELSE
    LET team == TeamSeq[ti]
        ov == overloadedMembers(ms, team)
    IN IF oi > Len(ov) THEN scanInclusive(rows, ms, ti + 1, 1, 0, << >>)
       ELSE
         LET src == ov[oi]
             ttr == tasksToReassign(rows, ms, src)
             av == IF ki = 0 THEN availableMembersInclusive(ms, team, src) ELSE available
             k == IF ki = 0 THEN 1 ELSE ki
             tgt == targetMemberInclusive(ms, av)
         IN IF k > Len(ttr) \/ tgt = NoMember
            THEN scanInclusive(rows, ms, ti, oi + 1, 0, << >>)
            ELSE [kind |-> "move", ti |-> ti, oi |-> oi, ki |-> k, available |-> av,
                  taskId |-> ttr[k], from |-> src, to |-> tgt]

\* The three nested loops, run from position (ti, oi, ki) up to the next task
\* update: ti indexes teams, oi overloadedMembers, ki tasksToReassign; ki = 0
\* stands for an overloaded member whose loop body has not begun, so that
\* availableMembers is computed on entering it and kept for its tasks.
RECURSIVE scan(_, _, _, _, _, _)
scan(rows, ms, ti, oi, ki, available) ==
  IF ti > Len(TeamSeq) THEN [kind |-> "finish"]
  ELSE
    LET team == TeamSeq[ti]
        ov == overloadedMembers(ms, team)
    IN IF oi > Len(ov) THEN scan(rows, ms, ti + 1, 1, 0, << >>)
       ELSE
         LET src == ov[oi]
             ttr == tasksToReassign(rows, ms, src)
             av == IF ki = 0 THEN availableMembers(ms, team, src) ELSE available
             k == IF ki = 0 THEN 1 ELSE ki
             tgt == targetMember(ms, av)
         IN IF k > Len(ttr) \/ tgt = NoMember
            THEN scan(rows, ms, ti, oi + 1, 0, << >>)
            ELSE [kind |-> "move", ti |-> ti, oi |-> oi, ki |-> k, available |-> av,
                  taskId |-> ttr[k], from |-> src, to |-> tgt]

SweepIdle ==
  [ pc |-> "idle", userId |-> NoUser, rows |-> << >>, task0 |-> << >>,
    log0 |-> << >>,
    members |-> [ m \in MemberIds |-> [capacity |-> 0, tasks |-> << >>] ],
    ti |-> 1, oi |-> 1, ki |-> 0, available |-> << >>,
    cur |-> [taskId |-> 0, from |-> NoMember, to |-> NoMember],
    moves |-> << >>, reassignments |-> << >>, status |-> 0 ]

\* auth() and the snapshot query (lines 7-36).  rows holds the task rows the
\* snapshot read; task0, log0 and moves record the tables at the start and
\* the task updates committed, for the properties below.
SweepStart(clerkId) ==
  /\ sweep.pc \in { "idle", "done" }
  /\ IF clerkId = NoUser
     THEN sweep' = [ SweepIdle EXCEPT !.pc = "done", !.status = 401 ]
     ELSE sweep' = [ SweepIdle EXCEPT !.pc = "loop", !.userId = clerkId,
                                      !.rows = task, !.task0 = task,
                                      !.log0 = activityLog,
                                      !.members = snapshot ]
  /\ UNCHANGED <<teamMember, task, activityLog, req, req2, sweep2, memberReq>>

\* The loops up to prisma.task.update (lines 39-89).
SweepUpdateTask ==
  /\ sweep.pc = "loop"
  /\ LET nm == scan(sweep.rows, sweep.members, sweep.ti, sweep.oi, sweep.ki,
                    sweep.available)
     IN /\ nm.kind = "move"
        /\ task' = [ task EXCEPT ![nm.taskId].assignedToId = nm.to ]
        /\ sweep' = [ sweep EXCEPT
             !.pc = "log", !.ti = nm.ti, !.oi = nm.oi, !.ki = nm.ki,
             !.available = nm.available,
             !.cur = [taskId |-> nm.taskId, from |-> nm.from, to |-> nm.to],
             !.moves = Append(@, [taskId |-> nm.taskId, from |-> nm.from,
                                  to |-> nm.to,
                                  load |-> Len(sweep.members[nm.to].tasks),
                                  capacity |-> sweep.members[nm.to].capacity]) ]
  /\ UNCHANGED <<teamMember, activityLog, req, req2, sweep2, memberReq>>

\* Faulty variant: a failed insert is swallowed and the loop goes on.
SweepLogReassignmentSwallow ==
  /\ sweep.pc = "log"
  /\ IF ActivityLogUserIdFkey(sweep.userId)
     THEN /\ activityLog' = Append(activityLog,
               [ taskId |-> sweep.cur.taskId, action |-> "Reassigned",
                 userId |-> sweep.userId,
                 from |-> sweep.cur.from, to |-> sweep.cur.to ])
          /\ sweep' = [ sweep EXCEPT
               !.pc = "loop", !.ki = @ + 1,
               !.reassignments = Append(@, sweep.cur),
               !.members[sweep.cur.to].tasks = Append(@, sweep.cur.taskId) ]
     ELSE /\ activityLog' = activityLog
          /\ sweep' = [ sweep EXCEPT !.pc = "loop", !.ki = @ + 1 ]
  /\ UNCHANGED <<teamMember, task, req, req2, sweep2, memberReq>>

\* prisma.activityLog.create with userId: the Clerk id (lines 92-110).  The
\* insert violates ActivityLog_userId_fkey unless userId is a User id; the
\* exception is caught at line 119 and answered with status 500.
SweepLogReassignment ==
  /\ sweep.pc = "log"
  /\ IF ActivityLogUserIdFkey(sweep.userId)
     THEN /\ activityLog' = Append(activityLog,
               [ taskId |-> sweep.cur.taskId, action |-> "Reassigned",
                 userId |-> sweep.userId,
                 from |-> sweep.cur.from, to |-> sweep.cur.to ])
          /\ sweep' = [ sweep EXCEPT
               !.pc = "loop", !.ki = @ + 1,
               !.reassignments = Append(@, sweep.cur),
               !.members[sweep.cur.to].tasks = Append(@, sweep.cur.taskId) ]
     ELSE /\ activityLog' = activityLog
          /\ sweep' = [ sweep EXCEPT !.pc = "done", !.status = 500 ]
  /\ UNCHANGED <<teamMember, task, req, req2, sweep2, memberReq>>

\* The loops run out: the success response (lines 115-118).
SweepRespond ==
  /\ sweep.pc = "loop"
  /\ scan(sweep.rows, sweep.members, sweep.ti, sweep.oi, sweep.ki,
          sweep.available).kind = "finish"
  /\ sweep' = [ sweep EXCEPT !.pc = "done", !.status = 200 ]
  /\ UNCHANGED <<teamMember, task, activityLog, req, req2, sweep2, memberReq>>

\* The same handler run by a second, concurrent request: nothing in the
\* route serialises two requests, so their steps interleave at every await.
Sweep2Start(clerkId) ==
  /\ sweep2.pc \in { "idle", "done" }
  /\ IF clerkId = NoUser
     THEN sweep2' = [ SweepIdle EXCEPT !.pc = "done", !.status = 401 ]
     ELSE sweep2' = [ SweepIdle EXCEPT !.pc = "loop", !.userId = clerkId,
                                       !.rows = task, !.task0 = task,
                                       !.log0 = activityLog,
                                       !.members = snapshot ]
  /\ UNCHANGED <<teamMember, task, activityLog, sweep, req, req2, memberReq>>

Sweep2UpdateTask ==
  /\ sweep2.pc = "loop"
  /\ LET nm == scan(sweep2.rows, sweep2.members, sweep2.ti, sweep2.oi, sweep2.ki,
                    sweep2.available)
     IN /\ nm.kind = "move"
        /\ task' = [ task EXCEPT ![nm.taskId].assignedToId = nm.to ]
        /\ sweep2' = [ sweep2 EXCEPT
             !.pc = "log", !.ti = nm.ti, !.oi = nm.oi, !.ki = nm.ki,
             !.available = nm.available,
             !.cur = [taskId |-> nm.taskId, from |-> nm.from, to |-> nm.to],
             !.moves = Append(@, [taskId |-> nm.taskId, from |-> nm.from,
                                  to |-> nm.to,
                                  load |-> Len(sweep2.members[nm.to].tasks),
                                  capacity |-> sweep2.members[nm.to].capacity]) ]
  /\ UNCHANGED <<teamMember, activityLog, sweep, req, req2, memberReq>>

Sweep2LogReassignment ==
  /\ sweep2.pc = "log"
  /\ IF ActivityLogUserIdFkey(sweep2.userId)
     THEN /\ activityLog' = Append(activityLog,
               [ taskId |-> sweep2.cur.taskId, action |-> "Reassigned",
                 userId |-> sweep2.userId,
                 from |-> sweep2.cur.from, to |-> sweep2.cur.to ])
          /\ sweep2' = [ sweep2 EXCEPT
               !.pc = "loop", !.ki = @ + 1,
               !.reassignments = Append(@, sweep2.cur),
               !.members[sweep2.cur.to].tasks = Append(@, sweep2.cur.taskId) ]
     ELSE /\ activityLog' = activityLog
          /\ sweep2' = [ sweep2 EXCEPT !.pc = "done", !.status = 500 ]
  /\ UNCHANGED <<teamMember, task, sweep, req, req2, memberReq>>

Sweep2Respond ==
  /\ sweep2.pc = "loop"
  /\ scan(sweep2.rows, sweep2.members, sweep2.ti, sweep2.oi, sweep2.ki,
          sweep2.available).kind = "finish"
  /\ sweep2' = [ sweep2 EXCEPT !.pc = "done", !.status = 200 ]
  /\ UNCHANGED <<teamMember, task, activityLog, sweep, req, req2, memberReq>>

----------------------------------------------------------------------------
(* Auto-assignment: lib/team-utils *)

\* Faulty variant: members at capacity are kept and the list is not sorted.
getMembersWithCapacityUnsorted(teamId) ==
  SelectSeq(teamMembers(teamId),
            LAMBDA m : countOpenTasks(m) <= teamMember[m].capacity)

\* findMany({ where: { teamId } }).filter(load < capacity).sort(least loaded)
getMembersWithCapacity(teamId) ==
  sortByKey(SelectSeq(teamMembers(teamId),
                      LAMBDA m : countOpenTasks(m) < teamMember[m].capacity),
            [ m \in MemberIds |-> countOpenTasks(m) ], 0, MaxTasks)

\* Faulty variant: the last listed member, the most loaded one, is taken.
findBestMemberForTaskLast(teamId) ==
  LET membersWithCapacity == getMembersWithCapacity(teamId)
  IN IF Len(membersWithCapacity) = 0 THEN NoMember
     ELSE membersWithCapacity[Len(membersWithCapacity)]

\* Faulty variant: with no member under capacity the first member is taken.
findBestMemberForTaskAny(teamId) ==
  LET membersWithCapacity == getMembersWithCapacity(teamId)
  IN IF Len(membersWithCapacity) = 0
     THEN IF teamMembers(teamId) = << >> THEN NoMember ELSE teamMembers(teamId)[1]
     ELSE membersWithCapacity[1]

findBestMemberForTask(teamId) ==
  LET membersWithCapacity == getMembersWithCapacity(teamId)
  IN IF Len(membersWithCapacity) = 0 THEN NoMember ELSE membersWithCapacity[1]

----------------------------------------------------------------------------
(* Team members listing: GET app/api/teams/[id]/members *)

\* prisma.teamMember.findMany({ where: { teamId }, include: { _count:
\* { select: { tasks: true } } } }): each member of the team with the number
\* of its tasks; the count has no status filter.
getTeamMembers(teamId) ==
  [ k \in DOMAIN teamMembers(teamId) |->
      LET m == teamMembers(teamId)[k]
      IN [ id |-> m, capacity |-> teamMember[m].capacity,
           count |-> Cardinality({ i \in DOMAIN task : task[i].assignedToId = m }) ] ]

----------------------------------------------------------------------------
(* Task create and update: app/api/tasks/route.ts, app/api/tasks/[id] *)

\* Member ids a request body can carry: the members and an id of no member.
UnknownMember == "mX"
BodyMemberIds == MemberIds \cup { UnknownMember }

\* JavaScript truthiness of an assignedToId
truthy(id) == id \notin { Undefined, NoMember, "" }

ReqIdle ==
  [ pc |-> "idle", kind |-> "none", clerkId |-> NoUser, user |-> NoUser,
    id |-> 0, projectId |-> Undefined, assignedToId |-> Undefined,
    autoAssign |-> FALSE, forceAssign |-> FALSE,
    priority |-> Undefined, taskStatus |-> Undefined,
    finalAssignedToId |-> Undefined, validated |-> << >>,
    status |-> 0, warning |-> FALSE, error |-> "", task0 |-> << >>,
    log0 |-> << >> ]

\* The answer that ends a request.
respond(r, status, error) ==
  [ r EXCEPT !.pc = "done", !.status = status, !.error = error ]

\* Faulty variant: the capacity warning of a create is not returned.
createValidateIgnoreWarning(r) ==
  IF truthy(r.finalAssignedToId) /\ ~r.forceAssign
  THEN LET validation == validateTaskAssignment(r.finalAssignedToId, FALSE)
           v == [ r EXCEPT !.validated = Append(@, r.finalAssignedToId) ]
       IN IF ~validation.valid /\ ~validation.warning
          THEN respond(v, 400, validation.error)
          ELSE [ v EXCEPT !.pc = "commit" ]
  ELSE [ r EXCEPT !.pc = "commit" ]

\* POST lines 151-170: validate the assignment if a member is selected
createValidate(r) ==
  IF truthy(r.finalAssignedToId) /\ ~r.forceAssign
  THEN LET validation == validateTaskAssignment(r.finalAssignedToId, FALSE)
           v == [ r EXCEPT !.validated = Append(@, r.finalAssignedToId) ]
       IN IF ~validation.valid /\ validation.warning
          THEN [ respond(v, 409, "") EXCEPT !.warning = TRUE ]
          ELSE IF ~validation.valid /\ ~validation.warning
          THEN respond(v, 400, validation.error)
          ELSE [ v EXCEPT !.pc = "commit" ]
  ELSE [ r EXCEPT !.pc = "commit" ]

\* POST lines 80-170: everything before prisma.task.create.  The body is
\* read after auth() and the user lookup.  Titles are not modelled: the body
\* carries a non-empty title and an existing project.
CreateTask(clerkId, projectId, assignedToId, autoAssign, forceAssign, priority, taskStatus) ==
  /\ req.pc = "idle"
  /\ Len(task) < MaxTasks
  /\ LET user == findUserByClerkId(clerkId)
         r == [ ReqIdle EXCEPT
                  !.kind = "create", !.clerkId = clerkId, !.user = user,
                  !.projectId = projectId, !.assignedToId = assignedToId,
                  !.autoAssign = autoAssign, !.forceAssign = forceAssign,
                  !.priority = priority, !.taskStatus = taskStatus,
                  !.finalAssignedToId = assignedToId, !.task0 = task,
                  !.log0 = activityLog ]
         early == [ ReqIdle EXCEPT !.kind = "create", !.clerkId = clerkId,
                                   !.user = user ]
     IN req' =
          IF clerkId = NoUser THEN respond(early, 401, "Unauthorized")
          ELSE IF user = NoUser THEN respond(early, 404, "User not found")
          ELSE IF Project[projectId].userId # user
          THEN respond(r, 403, "You don't have permission")
          ELSE
            LET bestMember == findBestMemberForTask(Project[projectId].teamId)
                final == IF autoAssign /\ ~truthy(assignedToId) /\ bestMember # NoMember
                         THEN bestMember ELSE assignedToId
            IN createValidate([ r EXCEPT !.finalAssignedToId = final ])
  /\ UNCHANGED <<teamMember, task, activityLog, sweep, sweep2, req2, memberReq>>

\* POST lines 172-208: prisma.task.create, the activity log, the response.
\* Task_assignedToId_fkey rejects an assignee that is no member; the
\* exception is answered with status 500 at line 211.
CreateTaskCommit ==
  /\ req.pc = "commit"
  /\ req.kind = "create"
  /\ LET final == IF truthy(req.finalAssignedToId) THEN req.finalAssignedToId ELSE NoMember
     IN IF ~TaskAssignedToIdFkey(final)
        THEN /\ req' = respond(req, 500, "Failed to create task")
             /\ UNCHANGED <<task, activityLog>>
        ELSE /\ task' = Append(task,
                  [ projectId |-> req.projectId, assignedToId |-> final,
                    priority |-> IF req.priority = Undefined THEN "MEDIUM" ELSE req.priority,
                    status |-> IF req.taskStatus = Undefined THEN "PENDING" ELSE req.taskStatus ])
             /\ activityLog' =
                  IF final # NoMember
                  THEN Append(activityLog,
                         [ taskId |-> Len(task) + 1, action |-> "Task assigned",
                           userId |-> req.user, from |-> NoMember, to |-> final ])
                  ELSE activityLog
             /\ req' = [ respond(req, 201, "") EXCEPT !.id = Len(task) + 1 ]
  /\ UNCHANGED <<teamMember, sweep, sweep2, req2, memberReq>>

\* PUT lines 154-185: the assignment change
updateValidate(r) ==
  IF r.assignedToId # Undefined /\ r.assignedToId # NoMember /\ r.assignedToId # ""
     /\ ~r.forceAssign
  THEN LET validation == validateTaskAssignment(r.assignedToId, FALSE)
           v == [ r EXCEPT !.validated = Append(@, r.assignedToId) ]
       IN IF ~validation.valid /\ validation.warning
          THEN [ respond(v, 409, "") EXCEPT !.warning = TRUE ]
          ELSE IF ~validation.valid /\ ~validation.warning
          THEN respond(v, 400, validation.error)
          ELSE [ v EXCEPT !.pc = "commit" ]
  ELSE [ r EXCEPT !.pc = "commit" ]

\* PUT lines 65-185: everything before prisma.task.update.  The body carries
\* valid title, priority and status values when it carries them.
UpdateTask(clerkId, id, assignedToId, forceAssign, priority, taskStatus) ==
  /\ req.pc = "idle"
  /\ LET user == findUserByClerkId(clerkId)
         r == [ ReqIdle EXCEPT
                  !.kind = "update", !.clerkId = clerkId, !.user = user, !.id = id,
                  !.assignedToId = assignedToId, !.forceAssign = forceAssign,
                  !.priority = priority, !.taskStatus = taskStatus, !.task0 = task,
                  !.log0 = activityLog ]
         early == [ ReqIdle EXCEPT !.kind = "update", !.clerkId = clerkId,
                                   !.user = user ]
     IN req' =
          IF clerkId = NoUser THEN respond(early, 401, "Unauthorized")
          ELSE IF user = NoUser THEN respond(early, 404, "User not found")
          ELSE IF id \notin DOMAIN task THEN respond(r, 404, "Task not found")
          ELSE IF Project[task[id].projectId].userId # user
          THEN respond(r, 403, "Forbidden")
          ELSE updateValidate(r)
  /\ UNCHANGED <<teamMember, task, activityLog, sweep, sweep2, req2, memberReq>>

\* PUT lines 187-222: prisma.task.update, the activity log, the response.
UpdateTaskCommit ==
  /\ req.pc = "commit"
  /\ req.kind = "update"
  /\ LET existingTask == req.task0[req.id]
         newAssignee == IF req.assignedToId = Undefined THEN task[req.id].assignedToId
                        ELSE IF req.assignedToId \in { NoMember, "" } THEN NoMember
                        ELSE req.assignedToId
     IN IF ~TaskAssignedToIdFkey(newAssignee)
        THEN /\ req' = respond(req, 500, "Failed to update task")
             /\ UNCHANGED <<task, activityLog>>
        ELSE /\ task' = [ task EXCEPT
                  ![req.id].assignedToId = newAssignee,
                  ![req.id].priority = IF req.priority = Undefined THEN @ ELSE req.priority,
                  ![req.id].status = IF req.taskStatus = Undefined THEN @ ELSE req.taskStatus ]
             /\ activityLog' =
                  IF req.assignedToId # Undefined
                     /\ existingTask.assignedToId # req.assignedToId
                  THEN Append(activityLog,
                         [ taskId |-> req.id, action |-> "Task reassigned",
                           userId |-> req.user, from |-> existingTask.assignedToId,
                           to |-> newAssignee ])
                  ELSE activityLog
             /\ req' = respond(req, 200, "")
  /\ UNCHANGED <<teamMember, sweep, sweep2, req2, memberReq>>

\* A second create or update request in flight at the same time as the first:
\* the same handlers, POST lines 80-208 and PUT lines 65-222.  Nothing
\* serialises two requests, so their steps interleave between the
\* validation and the write.
CreateTask2(clerkId, projectId, assignedToId, autoAssign, forceAssign, priority, taskStatus) ==
  /\ req2.pc = "idle"
  /\ Len(task) < MaxTasks
  /\ LET user == findUserByClerkId(clerkId)
         r == [ ReqIdle EXCEPT
                  !.kind = "create", !.clerkId = clerkId, !.user = user,
                  !.projectId = projectId, !.assignedToId = assignedToId,
                  !.autoAssign = autoAssign, !.forceAssign = forceAssign,
                  !.priority = priority, !.taskStatus = taskStatus,
                  !.finalAssignedToId = assignedToId, !.task0 = task,
                  !.log0 = activityLog ]
         early == [ ReqIdle EXCEPT !.kind = "create", !.clerkId = clerkId,
                                   !.user = user ]
     IN req2' =
          IF clerkId = NoUser THEN respond(early, 401, "Unauthorized")
          ELSE IF user = NoUser THEN respond(early, 404, "User not found")
          ELSE IF Project[projectId].userId # user
          THEN respond(r, 403, "You don't have permission")
          ELSE
            LET bestMember == findBestMemberForTask(Project[projectId].teamId)
                final == IF autoAssign /\ ~truthy(assignedToId) /\ bestMember # NoMember
                         THEN bestMember ELSE assignedToId
            IN createValidate([ r EXCEPT !.finalAssignedToId = final ])
  /\ UNCHANGED <<teamMember, task, activityLog, sweep, sweep2, req, memberReq>>

CreateTaskCommit2 ==
  /\ req2.pc = "commit"
  /\ req2.kind = "create"
  /\ LET final == IF truthy(req2.finalAssignedToId) THEN req2.finalAssignedToId ELSE NoMember
     IN IF ~TaskAssignedToIdFkey(final)
        THEN /\ req2' = respond(req2, 500, "Failed to create task")
             /\ UNCHANGED <<task, activityLog>>
        ELSE /\ task' = Append(task,
                  [ projectId |-> req2.projectId, assignedToId |-> final,
                    priority |-> IF req2.priority = Undefined THEN "MEDIUM" ELSE req2.priority,
                    status |-> IF req2.taskStatus = Undefined THEN "PENDING" ELSE req2.taskStatus ])
             /\ activityLog' =
                  IF final # NoMember
                  THEN Append(activityLog,
                         [ taskId |-> Len(task) + 1, action |-> "Task assigned",
                           userId |-> req2.user, from |-> NoMember, to |-> final ])
                  ELSE activityLog
             /\ req2' = [ respond(req2, 201, "") EXCEPT !.id = Len(task) + 1 ]
  /\ UNCHANGED <<teamMember, sweep, sweep2, req, memberReq>>

UpdateTask2(clerkId, id, assignedToId, forceAssign, priority, taskStatus) ==
  /\ req2.pc = "idle"
  /\ LET user == findUserByClerkId(clerkId)
         r == [ ReqIdle EXCEPT
                  !.kind = "update", !.clerkId = clerkId, !.user = user, !.id = id,
                  !.assignedToId = assignedToId, !.forceAssign = forceAssign,
                  !.priority = priority, !.taskStatus = taskStatus, !.task0 = task,
                  !.log0 = activityLog ]
         early == [ ReqIdle EXCEPT !.kind = "update", !.clerkId = clerkId,
                                   !.user = user ]
     IN req2' =
          IF clerkId = NoUser THEN respond(early, 401, "Unauthorized")
          ELSE IF user = NoUser THEN respond(early, 404, "User not found")
          ELSE IF id \notin DOMAIN task THEN respond(r, 404, "Task not found")
          ELSE IF Project[task[id].projectId].userId # user
          THEN respond(r, 403, "Forbidden")
          ELSE updateValidate(r)
  /\ UNCHANGED <<teamMember, task, activityLog, sweep, sweep2, req, memberReq>>

UpdateTaskCommit2 ==
  /\ req2.pc = "commit"
  /\ req2.kind = "update"
  /\ LET existingTask == req2.task0[req2.id]
         newAssignee == IF req2.assignedToId = Undefined THEN task[req2.id].assignedToId
                        ELSE IF req2.assignedToId \in { NoMember, "" } THEN NoMember
                        ELSE req2.assignedToId
     IN IF ~TaskAssignedToIdFkey(newAssignee)
        THEN /\ req2' = respond(req2, 500, "Failed to update task")
             /\ UNCHANGED <<task, activityLog>>
        ELSE /\ task' = [ task EXCEPT
                  ![req2.id].assignedToId = newAssignee,
                  ![req2.id].priority = IF req2.priority = Undefined THEN @ ELSE req2.priority,
                  ![req2.id].status = IF req2.taskStatus = Undefined THEN @ ELSE req2.taskStatus ]
             /\ activityLog' =
                  IF req2.assignedToId # Undefined
                     /\ existingTask.assignedToId # req2.assignedToId
                  THEN Append(activityLog,
                         [ taskId |-> req2.id, action |-> "Task reassigned",
                           userId |-> req2.user, from |-> existingTask.assignedToId,
                           to |-> newAssignee ])
                  ELSE activityLog
             /\ req2' = respond(req2, 200, "")
  /\ UNCHANGED <<teamMember, sweep, sweep2, req, memberReq>>

----------------------------------------------------------------------------
(* Team member create and update: app/api/teams/[id]/members *)

\* The capacity field of a JSON body: absent, null, a string, or a number.
\* A number is given by its integer part rounded down (n) and whether it is
\* an integer (int): n = 2 with int FALSE stands for a value such as 2.5.
JsonUndefined == [ t |-> "undefined", n |-> 0, int |-> TRUE ]
BodyCapacities ==
  { JsonUndefined, [ t |-> "string", n |-> 0, int |-> TRUE ],
    [ t |-> "number", n |-> 2, int |-> FALSE ] }
    \cup { [ t |-> "number", n |-> n, int |-> TRUE ] :
             n \in { -1, 0, MaxCapacity, MaxCapacity + 1 } }

\* Faulty variant: the upper limit is not checked.
capacityInvalidNoUpper(capacity) ==
  /\ capacity.t # "undefined"
  /\ \/ capacity.t # "number"
     \/ capacity.n < 0

\* capacity !== undefined &&
\*   (typeof capacity !== "number" || capacity < 0 || capacity > 5)
capacityInvalid(capacity) ==
  /\ capacity.t # "undefined"
  /\ \/ capacity.t # "number"
     \/ capacity.n < 0
     \/ capacity.n > MaxCapacity
     \/ (capacity.n = MaxCapacity /\ ~capacity.int)

\* TeamMember.capacity is an integer column: the store refuses to write a
\* number that is not an integer.
TeamMemberCapacityIsInt(capacity) == capacity.int

\* Ids the store generates for new members, and a member id and a team id
\* that no row has.
NewMemberSeq == << "n1", "n2", "n3", "n4" >>
NoSuchMember == "nX"
NoSuchTeam == "tX"

MemberReqIdle ==
  [ kind |-> "none", clerkId |-> NoUser, teamId |-> Undefined,
    memberId |-> Undefined, capacity |-> JsonUndefined,
    status |-> 0, error |-> "", members0 |-> << >> ]

\* POST: add a member to a team.  The body carries a name that is not used
\* in the team and a role.  members0 records the table before the request.
CreateMember(clerkId, teamId, capacity) ==
  /\ Cardinality(DOMAIN teamMember) < Min(MaxNewMembers, Len(NewMemberSeq))
  /\ LET user == findUserByClerkId(clerkId)
         id == NewMemberSeq[Cardinality(DOMAIN teamMember) + 1]
         r == [ MemberReqIdle EXCEPT
                  !.kind = "create", !.clerkId = clerkId, !.teamId = teamId,
                  !.capacity = capacity, !.members0 = teamMember ]
         fail(status, error) ==
           /\ memberReq' = [ r EXCEPT !.status = status, !.error = error ]
           /\ teamMember' = teamMember
     IN IF clerkId = NoUser THEN fail(401, "Unauthorized")
        ELSE IF user = NoUser THEN fail(404, "User not found")
        ELSE IF teamId \notin TeamIds THEN fail(404, "Team not found")
        ELSE IF TeamOwner[teamId] # user THEN fail(403, "Forbidden")
        ELSE IF capacityInvalid(capacity)
        THEN fail(400, "Capacity must be a number between 0 and 5")
        ELSE IF ~TeamMemberCapacityIsInt(capacity)
        THEN fail(500, "Failed to create team member")
        ELSE /\ teamMember' =
                  teamMember @@
                    (id :> [ teamId |-> teamId,
                             capacity |-> IF capacity.t = "undefined"
                                          THEN DefaultCapacity ELSE capacity.n ])
             /\ memberReq' = [ r EXCEPT !.status = 201, !.memberId = id ]
  /\ UNCHANGED <<task, activityLog, sweep, sweep2, req, req2>>

\* PUT: update a member.  The body carries no name and no role.
UpdateMember(clerkId, teamId, memberId, capacity) ==
  /\ LET user == findUserByClerkId(clerkId)
         r == [ MemberReqIdle EXCEPT
                  !.kind = "update", !.clerkId = clerkId, !.teamId = teamId,
                  !.memberId = memberId, !.capacity = capacity,
                  !.members0 = teamMember ]
         fail(status, error) ==
           /\ memberReq' = [ r EXCEPT !.status = status, !.error = error ]
           /\ teamMember' = teamMember
     IN IF clerkId = NoUser THEN fail(401, "Unauthorized")
        ELSE IF user = NoUser THEN fail(404, "User not found")
        ELSE IF teamId \notin TeamIds THEN fail(404, "Team not found")
        ELSE IF TeamOwner[teamId] # user THEN fail(403, "Forbidden")
        ELSE IF memberId \notin DOMAIN teamMember
                \/ teamMember[memberId].teamId # teamId
        THEN fail(404, "Member not found")
        ELSE IF capacity.t # "undefined" /\ capacityInvalid(capacity)
        THEN fail(400, "Capacity must be a number between 0 and 5")
        ELSE IF ~TeamMemberCapacityIsInt(capacity)
        THEN fail(500, "Failed to update team member")
        ELSE /\ teamMember' =
                  IF capacity.t = "undefined" THEN teamMember
                  ELSE [ teamMember EXCEPT ![memberId].capacity = capacity.n ]
             /\ memberReq' = [ r EXCEPT !.status = 200 ]
  /\ UNCHANGED <<task, activityLog, sweep, sweep2, req, req2>>

----------------------------------------------------------------------------
(* Initial states *)

\* The project of a team.
ProjectOfTeam == [ t \in TeamIds |-> IF t = "tA" THEN "pA" ELSE "pB" ]

\* Rows of the Task table before the first request: every priority, open or
\* DONE, unassigned or assigned to a member of the project's team.
TaskRow ==
  { [ projectId |-> IF a = NoMember THEN "pA" ELSE ProjectOfTeam[MemberTeam[a]],
      assignedToId |-> a, priority |-> p, status |-> s ] :
    a \in MemberIds \cup { NoMember }, p \in Priorities, s \in { "PENDING", "DONE" } }

\* Task tables of up to MaxTasks rows.
InitTasks == UNION { [ 1..n -> TaskRow ] : n \in 0..MaxTasks }

InitMembers ==
  { tm \in [ MemberIds -> [ teamId : TeamIds, capacity : Capacities ] ] :
      \A m \in MemberIds : tm[m].teamId = MemberTeam[m] }

Init ==
  /\ teamMember \in InitMembers
  /\ task \in InitTasks
  /\ activityLog = << >>
  /\ sweep = SweepIdle
  /\ sweep2 = SweepIdle
  /\ req = ReqIdle
  /\ req2 = ReqIdle
  /\ memberReq = MemberReqIdle

NextSweep ==
  \/ \E clerkId \in ClerkIds \cup { NoUser } : SweepStart(clerkId)
  \/ SweepUpdateTask
  \/ SweepLogReassignment
  \/ SweepRespond

\* The store with one sweep request at a time.
SpecSweep == Init /\ [][NextSweep]_vars

\* Task tables whose rows are all open and assigned.
InitTasksRace ==
  { t \in InitTasks : \A i \in DOMAIN t : /\ t[i].status = "PENDING"
                                          /\ t[i].assignedToId # NoMember }

InitRace ==
  /\ teamMember \in InitMembers
  /\ task \in InitTasksRace
  /\ activityLog = << >>
  /\ sweep = SweepIdle
  /\ sweep2 = SweepIdle
  /\ req = ReqIdle
  /\ req2 = ReqIdle
  /\ memberReq = MemberReqIdle

NextRace ==
  \/ SweepStart("clerk1")
  \/ SweepUpdateTask
  \/ SweepLogReassignment
  \/ SweepRespond
  \/ Sweep2Start("clerk2")
  \/ Sweep2UpdateTask
  \/ Sweep2LogReassignment
  \/ Sweep2Respond

\* The store with two sweep requests of two users running concurrently.
SpecRace == InitRace /\ [][NextRace]_vars

\* A store with no member and no task yet.
InitMember ==
  /\ teamMember = << >>
  /\ task = << >>
  /\ activityLog = << >>
  /\ sweep = SweepIdle
  /\ sweep2 = SweepIdle
  /\ req = ReqIdle
  /\ req2 = ReqIdle
  /\ memberReq = MemberReqIdle

NextMember ==
  \/ \E clerkId \in ClerkIds \cup { NoUser }, teamId \in { "tA", "tC", NoSuchTeam },
        capacity \in BodyCapacities :
       CreateMember(clerkId, teamId, capacity)
  \/ \E clerkId \in ClerkIds \cup { NoUser }, teamId \in { "tA", "tC", NoSuchTeam },
        memberId \in DOMAIN teamMember \cup { NoSuchMember },
        capacity \in BodyCapacities :
       UpdateMember(clerkId, teamId, memberId, capacity)

\* The store under any sequence of member create and update requests.
SpecMember == InitMember /\ [][NextMember]_vars

\* One team with three members, so that a source has two possible targets:
\* all members in tA, capacities 0, 1 or 3, every task open and assigned.
CapacitiesOneTeam == { 0, 1, 3 }

InitOneTeam ==
  /\ teamMember \in [ MemberIds -> [ teamId : { "tA" }, capacity : CapacitiesOneTeam ] ]
  /\ task \in UNION { [ 1..n -> [ projectId : { "pA" }, assignedToId : MemberIds,
                                  priority : { "LOW", "HIGH" },
                                  status : { "PENDING" } ] ] : n \in 0..MaxTasks }
  /\ activityLog = << >>
  /\ sweep = SweepIdle
  /\ sweep2 = SweepIdle
  /\ req = ReqIdle
  /\ req2 = ReqIdle
  /\ memberReq = MemberReqIdle

\* That store with one sweep request at a time.
SpecOneTeam == InitOneTeam /\ [][NextSweep]_vars

\* A sweep request, and a second one sent once the first has been answered.
FirstSweepStart(clerkId) ==
  /\ sweep.pc = "idle"
  /\ SweepStart(clerkId)

SecondSweepStart(clerkId) ==
  /\ sweep.pc = "done"
  /\ sweep2.pc = "idle"
  /\ Sweep2Start(clerkId)

NextTwice ==
  \/ FirstSweepStart("clerk1")
  \/ SweepUpdateTask
  \/ SweepLogReassignment
  \/ SweepRespond
  \/ \E clerkId \in ClerkIds : SecondSweepStart(clerkId)
  \/ Sweep2UpdateTask
  \/ Sweep2LogReassignment
  \/ Sweep2Respond

\* The store with two sweep requests, one after the other.
SpecTwice == InitRace /\ [][NextTwice]_vars

\* Task tables whose rows all have the default priority.
InitTasksReq ==
  { t \in InitTasks : \A i \in DOMAIN t : t[i].priority = "MEDIUM" }

InitReq ==
  /\ teamMember \in InitMembers
  /\ task \in InitTasksReq
  /\ activityLog = << >>
  /\ sweep = SweepIdle
  /\ sweep2 = SweepIdle
  /\ req = ReqIdle
  /\ req2 = ReqIdle
  /\ memberReq = MemberReqIdle

NextReq ==
  \/ \E clerkId \in { "clerk1", NoUser }, projectId \in ProjectIds,
        assignedToId \in BodyMemberIds \cup { Undefined },
        autoAssign \in BOOLEAN, forceAssign \in BOOLEAN,
        taskStatus \in { Undefined, "DONE" } :
       CreateTask(clerkId, projectId, assignedToId, autoAssign, forceAssign,
                  Undefined, taskStatus)
  \/ CreateTaskCommit
  \/ \E clerkId \in { "clerk1", NoUser }, id \in 1..(MaxTasks + 1),
        assignedToId \in BodyMemberIds \cup { Undefined, NoMember },
        forceAssign \in BOOLEAN, taskStatus \in { Undefined, "DONE" } :
       UpdateTask(clerkId, id, assignedToId, forceAssign, Undefined, taskStatus)
  \/ UpdateTaskCommit

\* The store with one task create or update request.
SpecReq == InitReq /\ [][NextReq]_vars

NextAuto ==
  \/ \E projectId \in ProjectIds, assignedToId \in { Undefined, "m1" },
        autoAssign \in BOOLEAN, forceAssign \in BOOLEAN :
       CreateTask("clerk1", projectId, assignedToId, autoAssign, forceAssign,
                  Undefined, Undefined)
  \/ CreateTaskCommit

\* The store with one task create request that may ask for auto-assignment.
SpecAuto == InitReq /\ [][NextAuto]_vars

\* The creates that passed validation and have not written their row yet.
CreatesInFlight ==
  Cardinality({ r \in { req, req2 } : r.pc = "commit" /\ r.kind = "create" })

\* Two requests that assign a task to a member without forceAssign.  The
\* bodies carry a member of the store and no status; a create is accepted
\* while the table has room for the rows of all creates in flight.
NextReqRace ==
  \/ \E assignedToId \in MemberIds :
       /\ Len(task) + CreatesInFlight < MaxTasks
       /\ CreateTask("clerk1", "pA", assignedToId, FALSE, FALSE, Undefined, Undefined)
  \/ CreateTaskCommit
  \/ \E id \in 1..MaxTasks, assignedToId \in MemberIds :
       UpdateTask("clerk1", id, assignedToId, FALSE, Undefined, Undefined)
  \/ UpdateTaskCommit
  \/ \E assignedToId \in MemberIds :
       /\ Len(task) + CreatesInFlight < MaxTasks
       /\ CreateTask2("clerk1", "pA", assignedToId, FALSE, FALSE, Undefined, Undefined)
  \/ CreateTaskCommit2
  \/ \E id \in 1..MaxTasks, assignedToId \in MemberIds :
       UpdateTask2("clerk1", id, assignedToId, FALSE, Undefined, Undefined)
  \/ UpdateTaskCommit2

\* The store with two task create or update requests in flight.
SpecReqRace == InitReq /\ [][NextReqRace]_vars

\* One task update whose body carries assignedToId as the task form sends
\* it: a member id, null, the empty string of "Unassigned", or not at all.
NextUpdate ==
  \/ \E id \in 1..MaxTasks,
        assignedToId \in BodyMemberIds \cup { Undefined, NoMember, "" },
        forceAssign \in BOOLEAN :
       UpdateTask("clerk1", id, assignedToId, forceAssign, Undefined, Undefined)
  \/ UpdateTaskCommit

\* The store with one task update request.
SpecUpdate == InitReq /\ [][NextUpdate]_vars

----------------------------------------------------------------------------
(* Notions the properties are stated in *)

\* The open tasks of a member in a task table: those not DONE.
Open(rows, m) ==
  { i \in DOMAIN rows : rows[i].assignedToId = m
                        /\ rows[i].status \in { "PENDING", "IN_PROGRESS" } }

OpenLoad(m) == Cardinality(Open(task, m))

\* A member's open load when the sweep took its snapshot.
Load0(m) == Cardinality(Open(sweep.task0, m))

\* The tasks whose assignee differs from the one the sweep's snapshot saw.
Moved == { i \in DOMAIN sweep.task0 :
             task[i].assignedToId # sweep.task0[i].assignedToId }

SweepBegun == sweep.pc \in { "loop", "log" } \/ (sweep.pc = "done" /\ sweep.status # 401)

IsWarning(v) == ~v.valid /\ v.warning

----------------------------------------------------------------------------
(* Properties *)

\* C1: for every member id M a body can carry and either force value,
\* validateTaskAssignment(M, false) is the warning result exactly when M is a
\* member whose open load is at least its capacity, and
\* validateTaskAssignment(M, force) is the allowed result exactly when M is a
\* member and its open load is below its capacity or force is true.
C1_ValidateAssignment ==
  \A m \in BodyMemberIds :
    /\ IsWarning(validateTaskAssignment(m, FALSE))
         <=> (m \in MemberIds /\ OpenLoad(m) >= teamMember[m].capacity)
    /\ \A force \in BOOLEAN :
         validateTaskAssignment(m, force).valid
           <=> (m \in MemberIds /\ (OpenLoad(m) < teamMember[m].capacity \/ force))

\* A request was answered with the warning for a member at or over capacity.
C1_Witness ==
  /\ req.pc = "done" /\ req.status = 409 /\ req.validated # << >>
  /\ OpenLoad(req.validated[1]) >= teamMember[req.validated[1]].capacity

\* C2: isMemberOverCapacity(M).overCapacity is true exactly when the number
\* of M's tasks that are not DONE is at least M.capacity; so it is true at
\* load = capacity and always true at capacity 0.
C2_OverCapacityInclusive ==
  \A m \in MemberIds :
    /\ isMemberOverCapacity(m).overCapacity <=> OpenLoad(m) >= teamMember[m].capacity
    /\ isMemberOverCapacity(m).currentLoad = OpenLoad(m)
    /\ (OpenLoad(m) = teamMember[m].capacity => isMemberOverCapacity(m).overCapacity)
    /\ (teamMember[m].capacity = 0 => isMemberOverCapacity(m).overCapacity)

\* A request was warned about a member whose load equals a capacity above 0,
\* while that member also has a DONE task.
C2_Witness ==
  /\ req.pc = "done" /\ req.status = 409 /\ req.validated # << >>
  /\ LET m == req.validated[1]
     IN /\ OpenLoad(m) = teamMember[m].capacity
        /\ teamMember[m].capacity > 0
        /\ \E i \in DOMAIN task : task[i].assignedToId = m /\ task[i].status = "DONE"

\* C3: during and after a sweep, every task that was HIGH in the snapshot
\* still has the assignee it had.
C3_HighNeverMoved ==
  SweepBegun =>
    \A i \in DOMAIN sweep.task0 :
      sweep.task0[i].priority = "HIGH"
        => task[i].assignedToId = sweep.task0[i].assignedToId

\* A sweep moved a task away from a member that also held an open HIGH task.
C3_Witness ==
  /\ SweepBegun /\ Moved # { }
  /\ \E i \in Moved, h \in DOMAIN sweep.task0 :
       /\ sweep.task0[h].priority = "HIGH"
       /\ h \in Open(sweep.task0, sweep.task0[i].assignedToId)

\* The running load of the target of the k-th task update of the sweep: its
\* snapshot load plus the earlier updates of the sweep that went to it.
RunningLoad(k) ==
  Load0(sweep.moves[k].to)
    + Cardinality({ j \in 1..(k - 1) : sweep.moves[j].to = sweep.moves[k].to })

NoneOverloaded0 == \A m \in MemberIds : Load0(m) <= teamMember[m].capacity

\* C5: a sweep that starts with no member above its capacity updates no
\* task, inserts no activity-log row, returns no reassignment, and every task
\* keeps its assignee.
C5_NoOverloadNoChange ==
  (SweepBegun /\ NoneOverloaded0) =>
    /\ task = sweep.task0
    /\ activityLog = sweep.log0
    /\ sweep.moves = << >>
    /\ sweep.reassignments = << >>
    /\ sweep.pc # "log"
    /\ (sweep.pc = "done" => sweep.status = 200)

\* A sweep ended with no member overloaded although one member was at its
\* capacity and another had spare capacity.
C5_Witness ==
  /\ sweep.pc = "done" /\ sweep.status = 200 /\ NoneOverloaded0
  /\ \E m, n \in MemberIds :
       /\ MemberTeam[m] = MemberTeam[n]
       /\ Load0(m) = teamMember[m].capacity /\ Load0(m) > 0
       /\ Load0(n) < teamMember[n].capacity

\* The tasks a sweep took away from member m.
MovedFrom(m) == { i \in Moved : sweep.task0[i].assignedToId = m }

\* The open tasks of m in the snapshot that are not HIGH.
Eligible0(m) == { i \in Open(sweep.task0, m) : sweep.task0[i].priority # "HIGH" }

\* Position of a member in the store's enumeration.
MemberIndex(m) == CHOOSE k \in DOMAIN MemberSeq : MemberSeq[k] = m

\* Sum of f over the members listed in seq.
RECURSIVE SumOver(_, _)
SumOver(seq, f) ==
  IF seq = << >> THEN 0 ELSE f[Head(seq)] + SumOver(Tail(seq), f)

\* Spare capacity among the other members of m's team when the sweep comes
\* to m: their snapshot spare capacity less the tasks already taken from the
\* members of the team that come before m.
SpareAt(m) ==
  SumOver(SelectSeq(teamMembers(MemberTeam[m]), LAMBDA o : o # m),
          [ o \in MemberIds |-> Max(teamMember[o].capacity - Load0(o), 0) ])
    - Cardinality({ i \in Moved :
                      /\ MemberTeam[sweep.task0[i].assignedToId] = MemberTeam[m]
                      /\ MemberIndex(sweep.task0[i].assignedToId) < MemberIndex(m) })

\* C6: when a sweep has ended, each member that was overloaded in the
\* snapshot has lost exactly min(excess, its open non-HIGH tasks, the spare
\* capacity of its team-mates when it was processed) tasks.
C6_ShedsExactlyMin ==
  (sweep.pc = "done" /\ sweep.status # 401) =>
    \A m \in MemberIds :
      Load0(m) > teamMember[m].capacity =>
        Cardinality(MovedFrom(m))
          = Min(Load0(m) - teamMember[m].capacity,
                Min(Cardinality(Eligible0(m)), SpareAt(m)))

\* C7: a MEDIUM task is taken from a member only if every open LOW task of
\* that member is taken in the same sweep.
C7_LowBeforeMedium ==
  SweepBegun =>
    \A i \in Moved :
      sweep.task0[i].priority = "MEDIUM" =>
        \A j \in Open(sweep.task0, sweep.task0[i].assignedToId) :
          sweep.task0[j].priority = "LOW" => j \in Moved

\* A member held an open LOW and an open MEDIUM task, listed MEDIUM first,
\* and the sweep took the LOW one and left the MEDIUM one.
C7_Witness ==
  /\ SweepBegun
  /\ \E i \in Moved, j \in DOMAIN sweep.task0 :
       /\ sweep.task0[i].priority = "LOW"
       /\ j \in Open(sweep.task0, sweep.task0[i].assignedToId)
       /\ sweep.task0[j].priority = "MEDIUM"
       /\ j < i
       /\ j \notin Moved

\* C8: a member whose open load equals its capacity when the sweep starts
\* loses no task and gains none, and validateTaskAssignment without force
\* answers with the warning for it.
C8_AtCapacityUntouched ==
  SweepBegun =>
    \A m \in MemberIds :
      Load0(m) = teamMember[m].capacity =>
        /\ { i \in DOMAIN task : task[i].assignedToId = m }
             = { i \in DOMAIN sweep.task0 : sweep.task0[i].assignedToId = m }
        /\ IsWarning(validateTaskAssignment(m, FALSE))

\* A sweep ended in a team with an overloaded member holding a movable
\* task and a team-mate exactly at a capacity above 0.
C8_Witness ==
  /\ sweep.pc = "done" /\ sweep.status # 401
  /\ \E m, o \in MemberIds :
       /\ m # o /\ MemberTeam[m] = MemberTeam[o]
       /\ Load0(m) = teamMember[m].capacity /\ Load0(m) > 0
       /\ Load0(o) > teamMember[o].capacity
       /\ Eligible0(o) # { }

\* The member the running request wants as assignee, if any.
ReqAssignee ==
  IF req.kind = "create" THEN req.finalAssignedToId ELSE req.assignedToId

\* A member's open load when the request arrived.
ReqLoad0(m) == Cardinality(Open(req.task0, m))

\* The request passed authentication, lookup and ownership checks.
ReqAdmitted ==
  req.pc \in { "commit", "done" } /\ req.status \notin { 401, 403, 404 }

\* C9: a create or update request without forceAssign whose assignee is a
\* member at or over capacity is answered with the capacity warning (409)
\* and writes nothing: the Task and ActivityLog tables stay as they were.
\* Hence a task is written for such a member only under forceAssign.
C9_WarningBlocksWrite ==
  (ReqAdmitted /\ ReqAssignee \in MemberIds
     /\ ReqLoad0(ReqAssignee) >= teamMember[ReqAssignee].capacity) =>
    /\ (~req.forceAssign =>
          /\ req.pc = "done" /\ req.status = 409 /\ req.warning
          /\ task = req.task0
          /\ activityLog = req.log0)
    /\ (task # req.task0 => req.forceAssign)

\* An update without forceAssign that names another member, at its
\* capacity, was answered 409 with nothing written.
C9_Witness ==
  /\ req.pc = "done" /\ req.kind = "update" /\ req.status = 409
  /\ ~req.forceAssign
  /\ req.assignedToId \in MemberIds
  /\ req.task0[req.id].assignedToId # req.assignedToId
  /\ ReqLoad0(req.assignedToId) = teamMember[req.assignedToId].capacity
  /\ task = req.task0 /\ activityLog = req.log0

\* C10: whenever a create or update is about to write, or has written, a
\* task with a non-null assignee, validateTaskAssignment has been evaluated
\* for that member in the request, whatever forceAssign is.
C10_ValidatedBeforeWrite ==
  ((req.pc = "commit" \/ (req.pc = "done" /\ req.status \in { 200, 201 }))
     /\ ReqAssignee \in MemberIds) =>
    \E k \in DOMAIN req.validated : req.validated[k] = ReqAssignee

\* C11: a member id that is no member is rejected with the reason "Member
\* not found" by validateTaskAssignment under either force value, and a
\* create or update request naming it as assignee is answered with that
\* rejection (400), not an internal failure, and writes no task.
C11_UnknownMemberRejected ==
  /\ \A force \in BOOLEAN :
       LET v == validateTaskAssignment(UnknownMember, force)
       IN ~v.valid /\ ~v.warning /\ v.error = "Member not found"
  /\ (req.pc = "done" /\ ReqAdmitted /\ ReqAssignee = UnknownMember) =>
       /\ req.status = 400
       /\ req.error = "Member not found"
       /\ task = req.task0


\* The members of a team.
MembersOf(t) == { m \in MemberIds : MemberTeam[m] = t }

\* C12: getMembersWithCapacity(team) lists, once each, exactly the members
\* of that team whose open load is strictly below their capacity, in an
\* order in which the open loads never decrease.
C12_MembersWithCapacity ==
  \A t \in TeamIds :
    LET r == getMembersWithCapacity(t)
    IN /\ { r[k] : k \in DOMAIN r }
            = { m \in MembersOf(t) : OpenLoad(m) < teamMember[m].capacity }
       /\ \A j, k \in DOMAIN r : j # k => r[j] # r[k]
       /\ \A j, k \in DOMAIN r : j < k => OpenLoad(r[j]) <= OpenLoad(r[k])

\* An auto-assigning create is about to write while the list of its team
\* puts m2 before the more loaded m1, and tB's only member, at capacity 0,
\* is left out.
C12_Witness ==
  /\ req.pc = "commit" /\ req.kind = "create" /\ req.autoAssign
  /\ req.projectId = "pA" /\ req.finalAssignedToId = "m2"
  /\ getMembersWithCapacity("tA") = << "m2", "m1" >>
  /\ OpenLoad("m2") < OpenLoad("m1")
  /\ OpenLoad("m3") = teamMember["m3"].capacity
  /\ getMembersWithCapacity("tB") = << >>

\* C13: findBestMemberForTask(team) is a member of the team with load below
\* capacity such that no member of the team with spare capacity has a
\* strictly lower load; it is null exactly when every member of the team has
\* load at or above capacity, which includes a team without members.
C13_BestMember ==
  \A t \in TeamIds :
    LET best == findBestMemberForTask(t)
    IN /\ best = NoMember
            <=> \A m \in MembersOf(t) : OpenLoad(m) >= teamMember[m].capacity
       /\ best # NoMember =>
            /\ best \in MembersOf(t)
            /\ OpenLoad(best) < teamMember[best].capacity
            /\ \A o \in MembersOf(t) :
                 OpenLoad(o) < teamMember[o].capacity => OpenLoad(o) >= OpenLoad(best)

\* A create was auto-assigned to m2 although m1, listed before it, also had
\* spare capacity, because m1 carried more open tasks.
C13_Witness ==
  /\ req.pc = "done" /\ req.kind = "create" /\ req.status = 201
  /\ req.autoAssign /\ req.assignedToId = Undefined
  /\ req.finalAssignedToId = "m2"
  /\ ReqLoad0("m1") < teamMember["m1"].capacity
  /\ ReqLoad0("m2") < ReqLoad0("m1")
  /\ findBestMemberForTask("tC") = NoMember

\* The running create asks for auto-assignment, names no assignee, and
\* every member of its project's team was at or over capacity on arrival.
AutoAssignNoRoom ==
  /\ req.kind = "create" /\ ReqAdmitted
  /\ req.autoAssign /\ ~truthy(req.assignedToId)
  /\ \A m \in MembersOf(Project[req.projectId].teamId) :
       ReqLoad0(m) >= teamMember[m].capacity

\* C14: such a create is not answered with a warning or an error and
\* forces no assignment: it appends one task without assignee, inserts no
\* activity-log row and answers 201.
C14_AutoAssignNoRoom ==
  AutoAssignNoRoom =>
    /\ ~truthy(req.finalAssignedToId)
    /\ ~req.warning
    /\ activityLog = req.log0
    /\ (req.pc = "commit" => task = req.task0)
    /\ (req.pc = "done" =>
          /\ req.status = 201
          /\ Len(task) = Len(req.task0) + 1
          /\ SubSeq(task, 1, Len(req.task0)) = req.task0
          /\ task[Len(task)].assignedToId = NoMember)

\* Such a create was answered 201 in a team whose two members were full,
\* one of them exactly at a capacity above 0.
C14_Witness ==
  /\ AutoAssignNoRoom /\ req.pc = "done" /\ req.status = 201
  /\ req.projectId = "pA"
  /\ ReqLoad0("m1") = teamMember["m1"].capacity
  /\ teamMember["m1"].capacity > 0
  /\ task[Len(task)].assignedToId = NoMember


\* Team t had, in the snapshot, an overloaded member holding a movable task
\* while no member of t was below its capacity.
Stuck0(t) ==
  /\ \E m \in MembersOf(t) :
       Load0(m) > teamMember[m].capacity /\ Eligible0(m) # { }
  /\ \A o \in MembersOf(t) : Load0(o) >= teamMember[o].capacity

\* The activity-log rows inserted since the sweep began.
SweepLogged == SubSeq(activityLog, Len(sweep.log0) + 1, Len(activityLog))

C16_EveryMoveAudited ==
  (sweep.pc = "done" /\ sweep.status # 401) =>
    /\ Len(sweep.reassignments) = Len(sweep.moves)
    /\ \A k \in DOMAIN sweep.reassignments :
         /\ sweep.reassignments[k].taskId = sweep.moves[k].taskId
         /\ sweep.reassignments[k].from = sweep.moves[k].from
         /\ sweep.reassignments[k].to = sweep.moves[k].to
    /\ \A i \in Moved :
         /\ Cardinality({ k \in DOMAIN sweep.reassignments :
                            sweep.reassignments[k].taskId = i }) = 1
         /\ Cardinality({ k \in DOMAIN SweepLogged :
                            /\ SweepLogged[k].taskId = i
                            /\ SweepLogged[k].from = sweep.task0[i].assignedToId
                            /\ SweepLogged[k].to = task[i].assignedToId }) = 1
         /\ Cardinality({ k \in DOMAIN SweepLogged : SweepLogged[k].taskId = i }) = 1

RacedSweeps ==
  /\ sweep.pc = "done" /\ sweep2.pc = "done"
  /\ sweep.moves # << >> /\ sweep2.moves # << >>
  /\ sweep.task0 = sweep2.task0 /\ sweep.log0 = sweep2.log0

\* The tasks both sweeps have updated.
DoubleMoved ==
  { i \in DOMAIN task :
      /\ \E k \in DOMAIN sweep.moves : sweep.moves[k].taskId = i
      /\ \E k \in DOMAIN sweep2.moves : sweep2.moves[k].taskId = i }

C19_LoadFiguresOpenOnly ==
  \A m \in MemberIds :
    /\ isMemberOverCapacity(m).currentLoad = OpenLoad(m)
    /\ Len(snapshot[m].tasks) = OpenLoad(m)
    /\ (sweep.pc = "loop" /\ sweep.moves = << >>) =>
         Len(sweep.members[m].tasks) = Load0(m)
    /\ \A k \in DOMAIN getTeamMembers(MemberTeam[m]) :
         getTeamMembers(MemberTeam[m])[k].id = m
           => getTeamMembers(MemberTeam[m])[k].count = OpenLoad(m)


\* The body's capacity is present and is not an integer from 0 to 5.
CapacityOutOfRange(capacity) ==
  /\ capacity.t # "undefined"
  /\ ~(capacity.t = "number" /\ capacity.int /\ capacity.n \in 0..MaxCapacity)

\* C20: after any sequence of member create and update requests every
\* stored capacity is an integer from 0 to 5; a member created without a
\* capacity has capacity 3; and a request whose capacity is outside that
\* range is answered with an error status and leaves the table as it was.
C20_CapacityInRange ==
  /\ \A m \in DOMAIN teamMember : teamMember[m].capacity \in 0..MaxCapacity
  /\ (memberReq.kind = "create" /\ memberReq.status = 201
        /\ memberReq.capacity = JsonUndefined) =>
       /\ memberReq.memberId \in DOMAIN teamMember
       /\ teamMember[memberReq.memberId].capacity = DefaultCapacity
  /\ (memberReq.kind # "none" /\ CapacityOutOfRange(memberReq.capacity)) =>
       /\ memberReq.status >= 400
       /\ teamMember = memberReq.members0

\* The owner's update of an existing member, created without a capacity,
\* to capacity 6 was answered 400 and the member still has capacity 3.
C20_Witness ==
  /\ memberReq.kind = "update" /\ memberReq.status = 400
  /\ memberReq.capacity = [ t |-> "number", n |-> MaxCapacity + 1, int |-> TRUE ]
  /\ memberReq.memberId \in DOMAIN teamMember
  /\ teamMember[memberReq.memberId].capacity = DefaultCapacity
  /\ teamMember = memberReq.members0


\* The members of team t under capacity in the snapshot, least loaded first:
\* the order a list computed once at the start of the team would have.
TeamOrder0(t) ==
  sortByKey(SelectSeq(teamMembers(t), LAMBDA m : Load0(m) < teamMember[m].capacity),
            [ m \in MemberIds |-> Load0(m) ], 0, 2 * MaxTasks)

\* C21: in a sweep whose loops have run to their end, the list of available
\* members was computed once for each team, not once for each overloaded
\* member of it, and every move went to the first member of that one list
\* whose running count was below capacity.
C21_ListOncePerTeam ==
  (sweep.pc = "done" /\ sweep.status # 401) =>
    /\ sweep.status = 200 =>
         \A t \in TeamIds : Len(availableLists(sweep.members, t)) <= 1
    /\ \A k \in DOMAIN sweep.moves :
         LET order == TeamOrder0(MemberTeam[sweep.moves[k].from])
             open == SelectSeq(order, LAMBDA m :
                       Load0(m) + Cardinality({ j \in 1..(k - 1) : sweep.moves[j].to = m })
                         < teamMember[m].capacity)
         IN open # << >> /\ sweep.moves[k].to = open[1]


\* The running count of member o just before the j-th task update of the
\* sweep, as the route keeps it in memory.
LoadAt(o, j) ==
  Load0(o) + Cardinality({ i \in 1..(j - 1) : sweep.moves[i].to = o })

\* The first task update of the sweep that has the source of the k-th one:
\* the processing of that source began just before it.
EntryOf(k) ==
  CHOOSE j \in 1..k :
    /\ \A i \in j..k : sweep.moves[i].from = sweep.moves[k].from
    /\ (j > 1 => sweep.moves[j - 1].from # sweep.moves[k].from)

\* The members the k-th task update could go to: the other members of the
\* source's team whose running count is below capacity.
Candidates(k) ==
  { o \in MemberIds :
      /\ o # sweep.moves[k].from
      /\ teamMember[o].teamId = teamMember[sweep.moves[k].from].teamId
      /\ LoadAt(o, k) < teamMember[o].capacity }

Sweep2Begun ==
  sweep2.pc \in { "loop", "log" } \/ (sweep2.pc = "done" /\ sweep2.status # 401)

\* Member m has more open tasks than capacity, an open task that is not
\* HIGH, and a team-mate below capacity.
StillMovable(m) ==
  /\ OpenLoad(m) > teamMember[m].capacity
  /\ \E i \in Open(task, m) : task[i].priority # "HIGH"
  /\ \E o \in MemberIds :
       /\ o # m /\ teamMember[o].teamId = teamMember[m].teamId
       /\ OpenLoad(o) < teamMember[o].capacity

Sources == { sweep.moves[k].from : k \in DOMAIN sweep.moves }

Targets == { sweep.moves[k].to : k \in DOMAIN sweep.moves }

RequestsCompleted == req.pc = "done" /\ req2.pc = "done"

\* C25: when two create or update requests without forceAssign have both
\* been answered, in whatever order their steps ran, no member holds more
\* open tasks than its capacity unless it already held more when one of
\* the requests began.
C25_ConcurrentWithinCapacity ==
  (RequestsCompleted /\ ~req.forceAssign /\ ~req2.forceAssign) =>
    \A m \in MemberIds :
      (/\ Cardinality(Open(req.task0, m)) <= teamMember[m].capacity
       /\ Cardinality(Open(req2.task0, m)) <= teamMember[m].capacity)
        => OpenLoad(m) <= teamMember[m].capacity


\* C26: every task that has an assignee is assigned to a member of the
\* team that owns the task's project.
C26_AssigneeInProjectTeam ==
  \A i \in DOMAIN task :
    task[i].assignedToId # NoMember =>
      teamMember[task[i].assignedToId].teamId = Project[task[i].projectId].teamId


\* C27: every task a sweep gave to another member was, in the snapshot,
\* assigned to a member of a team owned by the user who sent the request.
C27_OwnTeamsOnly ==
  SweepBegun =>
    \A i \in Moved :
      TeamOwner[teamMember[sweep.task0[i].assignedToId].teamId]
        = findUserByClerkId(sweep.userId)


\* C28: a sweep sent by a user that has a User row, once answered after
\* updating at least one task, was answered with success and has inserted
\* for every update an activity-log row whose userId is that user's User
\* id.
C28_SweepAuditInserted ==
  (sweep.pc = "done" /\ sweep.userId \in ClerkIds /\ sweep.moves # << >>) =>
    /\ sweep.status = 200
    /\ \A k \in DOMAIN sweep.moves :
         \E j \in (Len(sweep.log0) + 1)..Len(activityLog) :
           /\ activityLog[j].taskId = sweep.moves[k].taskId
           /\ activityLog[j].userId = findUserByClerkId(sweep.userId)


\* C29: a task update answered with success has inserted a "Task
\* reassigned" activity-log row exactly when the task's stored assignee
\* after the update differs from the one before it.
C29_LoggedIffChanged ==
  (req.pc = "done" /\ req.kind = "update" /\ req.status = 200) =>
    ((\E j \in (Len(req.log0) + 1)..Len(activityLog) :
        /\ activityLog[j].action = "Task reassigned"
        /\ activityLog[j].taskId = req.id)
     <=> task[req.id].assignedToId # req.task0[req.id].assignedToId)


\* C30: a task update without forceAssign whose body names the member the
\* task is already assigned to is not answered with the capacity warning.
C30_SameAssigneeNoWarning ==
  (/\ req.pc = "done" /\ req.kind = "update" /\ ~req.forceAssign
   /\ req.id \in DOMAIN req.task0
   /\ req.assignedToId \in MemberIds
   /\ req.assignedToId = req.task0[req.id].assignedToId)
    => ~(req.status = 409 /\ req.warning)


====
